---- MODULE Spec2Model ----
(***************************************************************************)
(* nixy: the bridge between Marathon and a local nginx.                    *)
(*                                                                         *)
(* The module models the reload queue (eventqueue), the reload worker      *)
(* (eventWorker), the reload pipeline (reload, fetchApps, syncApps,        *)
(* writeConf, checkConf, reloadNginx) and the two producers of the queue   *)
(* (eventStream, nixy_reload).  Strings that the code inspects character   *)
(* by character (the `frontends` label) are sequences of one-character     *)
(* strings; strings that the code only builds are TLA+ strings.            *)
(*                                                                         *)
(* The goroutines of the program are specified together where they meet:   *)
(*   Spec, LiveSpec   the producers, the queue, eventWorker and reload     *)
(*   HealthSpec       endpointHealth and the two users of its result,      *)
(*                    fetchApps and eventStream                            *)
(*   DownSpec         the same, started where a first reload left nixy     *)
(*   StreamSpec       eventStream, the timers of its requests and time     *)
(*   FetchSpec        fetchApps with its two goroutines                    *)
(*   LockSpec         syncApps step by step, the handlers that read config *)
(*   SyncSpec, FrontendSpec, ResyncSpec                                    *)
(*                    syncApps for every input within the bounds           *)
(***************************************************************************)
EXTENDS Integers, Sequences, FiniteSets, TLC

(***************************************************************************)
(* Bounds of the model.                                                    *)
(***************************************************************************)
\* longest task list drawn for syncApps
MaxTasks == 2
\* longest app list drawn for syncApps
MaxApps == 2
\* largest number of ports of one task
MaxPorts == 2
\* number of offers the producers make in one behaviour
MaxOffers == 3
\* number of requests eventStream makes in one behaviour
MaxRequests == 2

(***************************************************************************)
(* Character strings.                                                      *)
(***************************************************************************)
RECURSIVE Str(_)
\* the Go string made of the characters cs
Str(cs) == IF cs = << >> THEN "" ELSE Head(cs) \o Str(Tail(cs))

Lower ==
    {"a", "b", "c", "d", "e", "f", "g", "h", "i", "j", "k", "l", "m",
     "n", "o", "p", "q", "r", "s", "t", "u", "v", "w", "x", "y", "z"}

Digits == {"0", "1", "2", "3", "4", "5", "6", "7", "8", "9"}

\* the class \s of Go's regexp syntax: [\t\n\f\r ]
Spaces == {" ", "\t", "\n", "\f", "\r"}

(***************************************************************************)
(* strings.Split and regexp.Split.                                         *)
(***************************************************************************)
RECURSIVE splitLoop(_, _, _, _)
splitLoop(s, sep, i, cur) ==
    IF i > Len(s) THEN << cur >>
    ELSE IF s[i] = sep THEN << cur >> \o splitLoop(s, sep, i + 1, << >>)
    ELSE splitLoop(s, sep, i + 1, Append(cur, s[i]))

\* strings.Split(s, sep) for a separator of one character
stringsSplit(s, sep) == splitLoop(s, sep, 1, << >>)

RECURSIVE skipSpaces(_, _)
\* the index after the run of \s characters that starts at i
skipSpaces(s, i) ==
    IF i <= Len(s) /\ s[i] \in Spaces THEN skipSpaces(s, i + 1) ELSE i

RECURSIVE spaceLoop(_, _, _)
spaceLoop(s, i, cur) ==
    IF i > Len(s) THEN << cur >>
    ELSE IF s[i] \in Spaces
         THEN << cur >> \o spaceLoop(s, skipSpaces(s, i), << >>)
         ELSE spaceLoop(s, i + 1, Append(cur, s[i]))

\* spaceRegexp.Split(s, -1): the pieces between the maximal runs of \s,
\* the empty pieces before a leading and after a trailing run included
spaceRegexpSplit(s) == spaceLoop(s, 1, << >>)

(***************************************************************************)
(* frontendExpressions: one rule per alternative of frontendRegexp,        *)
(*    ^NAME(,NAME)*/TYPE$   with NAME a non-empty word over the alphabet.  *)
(***************************************************************************)
\* frontendExpressions with the dot allowed in the names of http
frontendExpressionsDotted ==
    << [alphabet |-> Digits \cup Lower \cup {"-", "."}, type |-> "http"],
       [alphabet |-> Digits \cup Lower \cup {"-"}, type |-> "http-public"],
       [alphabet |-> Lower \cup {".", "-"},        type |-> "partner"],
       [alphabet |-> Digits \cup Lower \cup {"-"}, type |-> "shop-dev"],
       [alphabet |-> Lower \cup {".", "-"},        type |-> "shop"],
       [alphabet |-> Digits,                       type |-> "tcp"] >>

frontendExpressions ==
    << [alphabet |-> Digits \cup Lower \cup {"-"}, type |-> "http"],
       [alphabet |-> Digits \cup Lower \cup {"-"}, type |-> "http-public"],
       [alphabet |-> Lower \cup {".", "-"},        type |-> "partner"],
       [alphabet |-> Digits \cup Lower \cup {"-"}, type |-> "shop-dev"],
       [alphabet |-> Lower \cup {".", "-"},        type |-> "shop"],
       [alphabet |-> Digits,                       type |-> "tcp"] >>

\* NAME(,NAME)* over the alphabet
matchNames(cs, alphabet) ==
    LET names == stringsSplit(cs, ",")
    IN  \A n \in 1..Len(names) :
            /\ names[n] # << >>
            /\ \A c \in 1..Len(names[n]) : names[n][c] \in alphabet

\* one alternative: the names, a slash, the type, and nothing else
matchExpression(token, rule) ==
    LET parts == stringsSplit(token, "/")
    IN  /\ Len(parts) = 2
        /\ Str(parts[2]) = rule.type
        /\ matchNames(parts[1], rule.alphabet)

\* frontendRegexp.MatchString(token)
frontendRegexpMatch(token) ==
    \E r \in 1..Len(frontendExpressions) :
        matchExpression(token, frontendExpressions[r])

(***************************************************************************)
(* syncApps.                                                               *)
(***************************************************************************)
\* task.Host + ":" + strconv.FormatInt(port, 10)
hostPort(task, port) == task.Host \o ":" \o ToString(port)

errorFrontend(message) == [Type |-> "error", Data |-> << message >>]

\* the Frontend of a token that matched frontendRegexp
newFrontend(frontend) ==
    LET frontendDataAndType == stringsSplit(frontend, "/")
        frontendData == stringsSplit(frontendDataAndType[1], ",")
    IN  [Type |-> Str(frontendDataAndType[2]),
         Data |-> [d \in 1..Len(frontendData) |-> Str(frontendData[d])]]

RECURSIVE frontendLoopNoBreak(_, _, _)
\* frontendLoop without the break after the error frontend
frontendLoopNoBreak(frontends, i, acc) ==
    IF i > Len(frontends) THEN acc
    ELSE IF frontendRegexpMatch(frontends[i])
         THEN frontendLoopNoBreak(frontends, i + 1,
                                  Append(acc, newFrontend(frontends[i])))
         ELSE frontendLoopNoBreak(frontends, i + 1,
                  << errorFrontend("frontend " \o Str(frontends[i])
                                   \o " not recognized") >>)

RECURSIVE frontendLoop(_, _, _)
\* the loop over the tokens of the label, which stops at the first
\* token that does not match
frontendLoop(frontends, i, acc) ==
    IF i > Len(frontends) THEN acc
    ELSE IF frontendRegexpMatch(frontends[i])
         THEN frontendLoop(frontends, i + 1,
                           Append(acc, newFrontend(frontends[i])))
         ELSE << errorFrontend("frontend " \o Str(frontends[i])
                               \o " not recognized") >>

\* parseFrontends that keeps as many frontends as the task has ports
parseFrontendsTruncating(app, task) ==
    IF "frontends" \in DOMAIN app.Labels
    THEN LET frontends == spaceRegexpSplit(app.Labels["frontends"])
         IN  IF Len(frontends) <= Len(task.Ports)
             THEN frontendLoop(frontends, 1, << >>)
             ELSE frontendLoop(SubSeq(frontends, 1, Len(task.Ports)),
                               1, << >>)
    ELSE << >>

\* newapp.Frontends for the app definition and the first task that
\* contributes to it
parseFrontends(app, task) ==
    IF "frontends" \in DOMAIN app.Labels
    THEN LET frontends == spaceRegexpSplit(app.Labels["frontends"])
         IN  IF Len(frontends) <= Len(task.Ports)
             THEN frontendLoop(frontends, 1, << >>)
             ELSE << errorFrontend(
                        "more frontends defined than ports exposed") >>
    ELSE << >>

RECURSIVE aliveLoopLast(_, _, _)
\* aliveLoop with alive = health.Alive: the last result decides
aliveLoopLast(results, i, alive) ==
    IF i > Len(results) THEN alive
    ELSE aliveLoopLast(results, i + 1, results[i])

RECURSIVE aliveLoop(_, _, _)
\* the loop over task.HealthCheckResults
aliveLoop(results, i, alive) ==
    IF i > Len(results) THEN alive
    ELSE aliveLoop(results, i + 1, IF results[i] = FALSE THEN FALSE ELSE alive)

\* TRUE when the loop body reaches the join for this app and this task
taskContributes(app, task) ==
    /\ task.AppId = app.Id
    /\ Len(task.Ports) # 0
    /\ Len(app.HealthChecks) > 0 =>
          /\ Len(task.HealthCheckResults) # 0
          /\ aliveLoop(task.HealthCheckResults, 1, TRUE)

\* the App made of the first task that contributes
newApp(app, task) ==
    [Env       |-> app.Env,
     Labels    |-> app.Labels,
     Tasks     |-> [p \in 1..Len(task.Ports) |->
                       << hostPort(task, task.Ports[p]) >>],
     Frontends |-> parseFrontends(app, task)]

RECURSIVE appendLoop(_, _, _)
\* a.Tasks[index] = append(a.Tasks[index], ...) for every port of the task;
\* an index beyond the slots of the app is a run-time panic
appendLoop(slots, task, index) ==
    IF index > Len(task.Ports) THEN [Tasks |-> slots, panicked |-> FALSE]
    ELSE IF index > Len(slots) THEN [Tasks |-> slots, panicked |-> TRUE]
    ELSE appendLoop(
            [slots EXCEPT ![index] =
                Append(@, hostPort(task, task.Ports[index]))],
            task, index + 1)

\* m with m[id] = a
put(m, id, a) ==
    [k \in DOMAIN m \cup {id} |-> IF k = id THEN a ELSE m[k]]

\* the join of one task into the map
joinTask(app, task, st) ==
    IF app.Id \in DOMAIN st.Apps
    THEN LET a == st.Apps[app.Id]
             r == appendLoop(a.Tasks, task, 1)
         IN  [Apps     |-> put(st.Apps, app.Id, [a EXCEPT !.Tasks = r.Tasks]),
              panicked |-> r.panicked]
    ELSE [Apps |-> put(st.Apps, app.Id, newApp(app, task)),
          panicked |-> FALSE]

RECURSIVE syncLoop(_, _, _, _, _)
\* the two nested loops: for every app, for every task
syncLoop(tasks, apps, i, j, st) ==
    IF st.panicked \/ i > Len(apps) THEN st
    ELSE IF j > Len(tasks) THEN syncLoop(tasks, apps, i + 1, 1, st)
    ELSE syncLoop(tasks, apps, i, j + 1,
                  IF taskContributes(apps[i], tasks[j])
                  THEN joinTask(apps[i], tasks[j], st)
                  ELSE st)

\* make(map[string]App)
emptyApps == [id \in {} |-> << >>]

\* syncApps(jsontasks, jsonapps): the new config.Apps, and whether the
\* call panicked instead of returning
syncApps(tasks, apps) ==
    syncLoop(tasks, apps, 1, 1, [Apps |-> emptyApps, panicked |-> FALSE])

(***************************************************************************)
(* Values of the `frontends` label.                                        *)
(***************************************************************************)
\* the label "example.com/http"
LabelExample ==
    << "e", "x", "a", "m", "p", "l", "e", ".", "c", "o", "m", "/", "h", "t", "t", "p" >>
\* the label "web/http"
LabelWeb ==
    << "w", "e", "b", "/", "h", "t", "t", "p" >>
\* the label "a.com/http b.com/http"
LabelTwoDotted ==
    << "a", ".", "c", "o", "m", "/", "h", "t", "t", "p", " ", "b", ".", "c", "o", "m", "/", "h", "t", "t", "p" >>
\* the label "GOOD.com/http bogus"
LabelGoodBogus ==
    << "G", "O", "O", "D", ".", "c", "o", "m", "/", "h", "t", "t", "p", " ", "b", "o", "g", "u", "s" >>
\* the label "web/http  80/tcp"
LabelWebTcp ==
    << "w", "e", "b", "/", "h", "t", "t", "p", " ", " ", "8", "0", "/", "t", "c", "p" >>
\* the label "web/http bogus"
LabelWebBogus ==
    << "w", "e", "b", "/", "h", "t", "t", "p", " ", "b", "o", "g", "u", "s" >>
\* the label "bogus\t80/tcp"
LabelBogusTcp ==
    << "b", "o", "g", "u", "s", "\t", "8", "0", "/", "t", "c", "p" >>
\* the label "shop.de,www.shop.de/shop"
LabelShop ==
    << "s", "h", "o", "p", ".", "d", "e", ",", "w", "w", "w", ".", "s", "h", "o", "p", ".", "d", "e", "/", "s", "h", "o", "p" >>
\* the label " web/http"
LabelLeadingSpace ==
    << " ", "w", "e", "b", "/", "h", "t", "t", "p" >>
\* the label ""
LabelEmpty ==
    <<  >>
\* the label "web,/http-public"
LabelEmptyName ==
    << "w", "e", "b", ",", "/", "h", "t", "t", "p", "-", "p", "u", "b", "l", "i", "c" >>

(***************************************************************************)
(* The decoded Marathon answers the model draws: MarathonTasks.Tasks and   *)
(* MarathonApps.Apps.  The task at position k of the list runs on the      *)
(* k-th host and its i-th port is 31000 + 10 * (i - 1) + k, so that no two *)
(* tasks share a host:port, as on a cluster.                               *)
(***************************************************************************)
HostNames == << "hostA", "hostB", "hostC", "hostD" >>

AppIds == << "/web", "/api", "/db" >>

\* the appId of a task; "/api" is the id of no app when the list has one app
TaskAppIds == {"/web", "/api"}

portsOf(k, n) == [i \in 1..n |-> 31000 + 10 * (i - 1) + k]

\* healthCheckResults[].alive
HealthResultChoices == {<< >>, << TRUE >>, << FALSE, TRUE >>}

\* the tasks syncApps is given: every appId, number of ports and health
TaskChoices(k) ==
    [AppId : TaskAppIds,
     Host : {HostNames[k]},
     Ports : {portsOf(k, n) : n \in 0..MaxPorts},
     HealthCheckResults : HealthResultChoices]

\* the tasks the frontends are parsed for: every appId and number of ports
HealthyTaskChoices(k) ==
    [AppId : TaskAppIds,
     Host : {HostNames[k]},
     Ports : {portsOf(k, n) : n \in 0..MaxPorts},
     HealthCheckResults : {<< TRUE >>}]

RECURSIVE TaskListsOfLen(_)
\* the task lists of length n
TaskListsOfLen(n) ==
    IF n = 0 THEN {<< >>}
    ELSE {Append(l, t) : l \in TaskListsOfLen(n - 1), t \in TaskChoices(n)}

RECURSIVE HealthyTaskListsOfLen(_)
HealthyTaskListsOfLen(n) ==
    IF n = 0 THEN {<< >>}
    ELSE {Append(l, t) : l \in HealthyTaskListsOfLen(n - 1),
                         t \in HealthyTaskChoices(n)}

TaskLists == UNION {TaskListsOfLen(n) : n \in 0..MaxTasks}

HealthyTaskLists ==
    UNION {HealthyTaskListsOfLen(n) : n \in 0..MaxTasks}

noLabels == [l \in {} |-> << >>]

frontendsLabel(cs) == [l \in {"frontends"} |-> cs]

LabelChoices ==
    {noLabels} \cup
    {frontendsLabel(cs) :
        cs \in {LabelExample, LabelWeb, LabelTwoDotted, LabelGoodBogus,
                LabelWebTcp, LabelWebBogus, LabelBogusTcp, LabelShop,
                LabelLeadingSpace, LabelEmpty, LabelEmptyName}}

FewLabelChoices == {noLabels, frontendsLabel(LabelWebTcp)}

\* the apps syncApps is given: with and without health checks
AppChoices(k) ==
    [Id : {AppIds[k]},
     Labels : IF k = 1 THEN FewLabelChoices ELSE {noLabels},
     Env : {noLabels},
     HealthChecks : {<< >>, << "check" >>}]

\* the apps the frontends are parsed for: every label on the first app
LabelledAppChoices(k) ==
    [Id : {AppIds[k]},
     Labels : IF k = 1 THEN LabelChoices ELSE FewLabelChoices,
     Env : {noLabels},
     HealthChecks : {<< >>}]

RECURSIVE AppListsOfLen(_)
\* the app lists of length n
AppListsOfLen(n) ==
    IF n = 0 THEN {<< >>}
    ELSE {Append(l, a) : l \in AppListsOfLen(n - 1), a \in AppChoices(n)}

RECURSIVE LabelledAppListsOfLen(_)
LabelledAppListsOfLen(n) ==
    IF n = 0 THEN {<< >>}
    ELSE {Append(l, a) : l \in LabelledAppListsOfLen(n - 1),
                         a \in LabelledAppChoices(n)}

AppLists == UNION {AppListsOfLen(n) : n \in 1..MaxApps}

LabelledAppLists ==
    UNION {LabelledAppListsOfLen(n) : n \in 1..MaxApps}

\* scenario 1 of the specification: one app, two tasks of one port each
HappyTasks ==
    << [AppId |-> "/web", Host |-> "hostA", Ports |-> << 31001 >>,
        HealthCheckResults |-> << >>],
       [AppId |-> "/web", Host |-> "hostB", Ports |-> << 31002 >>,
        HealthCheckResults |-> << >>] >>

HappyApps ==
    << [Id |-> "/web", Labels |-> frontendsLabel(LabelExample),
        Env |-> noLabels, HealthChecks |-> << >>] >>

\* two tasks of one app, the second with one port more than the first
UnevenTasks ==
    << [AppId |-> "/web", Host |-> "hostA", Ports |-> << 31001 >>,
        HealthCheckResults |-> << >>],
       [AppId |-> "/web", Host |-> "hostB", Ports |-> << 31002, 31012 >>,
        HealthCheckResults |-> << >>] >>

UnevenApps ==
    << [Id |-> "/web", Labels |-> noLabels,
        Env |-> noLabels, HealthChecks |-> << >>] >>

\* what fetchApps decodes in the model of the whole pipeline
FetchedInputs ==
    {[tasks |-> HappyTasks, apps |-> HappyApps],
     [tasks |-> UnevenTasks, apps |-> UnevenApps]}

(***************************************************************************)
(* The state.                                                              *)
(***************************************************************************)
VARIABLES
    eventqueue,   \* number of tokens buffered in the channel eventqueue
    pc,           \* where the goroutine of eventWorker is
    jsontasks,    \* reload's jsontasks.Tasks, once decoded
    jsonapps,     \* reload's jsonapps.Apps, once decoded
    Apps,         \* config.Apps
    LastUpdates,  \* config.LastUpdates
    now,          \* the last value time.Now() returned
    nginxConf,    \* the file at config.Nginx_config: the temp file it was
                  \* renamed from and its bytes
    tmpFile,      \* writeConf's tmpFile.Name(); 0 when there is none
    tmpFiles,     \* the temp files on disk, name |-> bytes
    created,      \* number of temp files ioutil.TempFile has made
    offers,       \* number of offers made to eventqueue
    lastOffer,    \* the producer of the last offer and what its select did
    owed,         \* TRUE from an offer until the next reload attempt starts
    started,      \* nginxConf and LastUpdates when the attempt started
    validated,    \* the temp file checkConf accepted in this attempt, or 0
    outcome,      \* how the last reload attempt ended
    tickerC,      \* number of ticks buffered in eventWorker's ticker.C
    ticked,       \* TRUE when the ticker fired since the last attempt started
    gap,          \* whether the ticker fired between the starts of the last
                  \* two attempts
    health,       \* health.Endpoints
    mpc,          \* where the goroutine of endpointHealth is: 0 at its
                  \* ticker, i when it is about to probe endpoint i
    lastProbe,    \* per endpoint, how its last /ping ended; "none" before
    fetchEndpoint, \* the endpoint the last fetchApps selected
    spc,          \* where the goroutine of eventStream is
    streamEndpoint, \* the endpoint eventStream selected at its last tick
    req,          \* number of requests eventStream has made; the open
                  \* request, if any, is the last one
    timer,        \* per request, the time left on its timer, in units of
                  \* 5 s; -1 when the timer is not armed
    cancel,       \* per request, TRUE when its channel cancel is closed
    fires,        \* per request, how often the function of its timer ran
    quiet,        \* the time since the last complete line was read, or
                  \* since the timer was made while no line was read
    sinceArmed,   \* the time since the last complete line was read, the
                  \* response arrived or the timer was made, whichever is
                  \* the latest
    locked,       \* TRUE while syncApps holds config.Lock()
    observed,     \* the last handler that read config, and whether
                  \* syncApps held the lock when it read
    fpc,          \* where fetchApps is, when its goroutines are modelled
    sub,          \* per goroutine of fetchApps, where it is and the error
                  \* it has to send
    received,     \* appserr and taskserr of fetchApps
    fetchErr,     \* what the last fetchApps returned
    finished,     \* the goroutines of fetchApps that have their error to
                  \* send, in the order in which they got there
    sinceOffer,   \* number of reload attempts started since the last offer
    duringAttempt \* TRUE when the last offer was made while a reload
                  \* attempt was in progress

\* the ticker of eventWorker and what is recorded about it
tickVars == << tickerC, ticked, gap >>

\* the endpoints and what is recorded about their use
healthVars == << health, mpc, lastProbe, fetchEndpoint >>

\* the event stream, its timers and what is recorded about them
streamVars ==
    << spc, streamEndpoint, req, timer, cancel, fires, quiet, sinceArmed >>

\* the mutex of config and what is recorded about the readers of config
lockVars == << locked, observed >>

\* fetchApps and its two goroutines
fetchVars == << fpc, sub, received, fetchErr, finished >>

\* what is recorded about the offers and the reload attempts after them
burstVars == << sinceOffer, duringAttempt >>

vars ==
    << eventqueue, pc, jsontasks, jsonapps, Apps, LastUpdates, now,
       nginxConf, tmpFile, tmpFiles, created, offers, lastOffer, owed,
       started, validated, outcome, tickVars, healthVars, streamVars,
       lockVars, fetchVars, burstVars >>

\* cap(eventqueue): make(chan bool, 2)
eventqueueCap == 2

\* offer with the test for a full channel off by one
offerBeyondCap(queue) ==
    IF queue <= eventqueueCap
    THEN [queue |-> queue + 1, result |-> "queued"]
    ELSE [queue |-> queue, result |-> "full"]

\* select { case eventqueue <- true: ... default: ... }
offer(queue) ==
    IF queue < eventqueueCap
    THEN [queue |-> queue + 1, result |-> "queued"]
    ELSE [queue |-> queue, result |-> "full"]

\* the bytes template.Execute writes for the data context config; complete
\* is FALSE when Execute stopped with an error before the end of the template
render(apps, updates, complete) ==
    [Apps |-> apps, LastUpdates |-> updates, complete |-> complete]

zeroUpdates ==
    [LastSync |-> 0, LastConfigRendered |-> 0,
     LastConfigValid |-> 0, LastNginxReload |-> 0]

\* the file at config.Nginx_config when nixy starts
installedConf == [name |-> 0, data |-> render(emptyApps, zeroUpdates, TRUE)]

\* config.Marathon, the endpoints in the order of the configuration
Marathon == << "http://marathon1:8080", "http://marathon2:8080" >>

\* newHealth: every endpoint starts as healthy
newHealth ==
    [i \in DOMAIN Marathon |->
        [Endpoint |-> Marathon[i], Healthy |-> TRUE, Message |-> "OK"]]

\* health = newHealth() in main; endpointHealth() waits for its ticker
healthInit ==
    /\ health = newHealth
    /\ mpc = 0
    /\ lastProbe = [i \in DOMAIN Marathon |-> "none"]
    /\ fetchEndpoint = ""

\* the two goroutines of fetchApps
Subtasks == {"tasks", "apps"}

\* fetchApps is not running
fetchInit ==
    /\ fpc = "idle"
    /\ sub = [s \in Subtasks |-> [at |-> "none", err |-> "none"]]
    /\ received = [s \in Subtasks |-> "none"]
    /\ fetchErr = "none"
    /\ finished = << >>

\* the zero value of the sync.RWMutex of config; no handler has run
lockInit ==
    /\ locked = FALSE
    /\ observed = [by |-> "none", locked |-> FALSE]

\* eventStream() waits for its ticker; no request was made
streamInit ==
    /\ spc = "tick"
    /\ streamEndpoint = ""
    /\ req = 0
    /\ timer = << >>
    /\ cancel = << >>
    /\ fires = << >>
    /\ quiet = 0
    /\ sinceArmed = 0

\* no offer was made and no reload attempt has started
burstInit ==
    /\ sinceOffer = 0
    /\ duringAttempt = FALSE

\* ticker := time.NewTicker(1 * time.Second) in eventWorker
tickerInit ==
    /\ tickerC = 0
    /\ ticked = FALSE
    /\ gap = "first"

Init ==
    /\ tickerInit
    /\ healthInit
    /\ streamInit
    /\ lockInit
    /\ fetchInit
    /\ burstInit
    /\ eventqueue = 0
    /\ pc = "tick"
    /\ jsontasks = << >>
    /\ jsonapps = << >>
    /\ Apps = emptyApps
    /\ LastUpdates = zeroUpdates
    /\ now = 0
    /\ nginxConf = installedConf
    /\ tmpFile = 0
    /\ tmpFiles = [f \in {} |-> << >>]
    /\ created = 0
    /\ offers = 0
    /\ lastOffer = [by |-> "none", result |-> "none"]
    /\ owed = FALSE
    /\ started = [nginxConf |-> nginxConf, LastUpdates |-> LastUpdates]
    /\ validated = 0
    /\ outcome = "none"

(***************************************************************************)
(* The producers of eventqueue.                                            *)
(***************************************************************************)
\* the select of a producer on eventqueue
sendToken(producer) ==
    /\ offers' = offers + 1
    /\ eventqueue' = offer(eventqueue).queue
    /\ lastOffer' = [by |-> producer, result |-> offer(eventqueue).result]
    /\ owed' = TRUE
    /\ sinceOffer' = 0
    /\ duringAttempt' = (outcome = "running")

Offer(producer) ==
    /\ pc # "crashed"
    /\ offers < MaxOffers
    /\ sendToken(producer)
    /\ UNCHANGED << pc, jsontasks, jsonapps, Apps, LastUpdates, now,
                    nginxConf, tmpFile, tmpFiles, created, started, validated,
                    outcome, tickVars, healthVars, streamVars, lockVars,
                    fetchVars >>

\* eventStream read a line that starts with "event: "
eventStreamEvent == Offer("eventStream")

\* the handler of /v1/reload
nixy_reload == Offer("nixy_reload")

(***************************************************************************)
(* eventWorker and reload.                                                 *)
(***************************************************************************)
\* cap(ticker.C): a time.Ticker keeps one tick for a slow receiver
tickerCap == 1

\* the runtime sends on ticker.C at the end of a period and drops the tick
\* when the channel is full
tickerFires ==
    /\ pc # "crashed"
    /\ tickerC' = IF tickerC < tickerCap THEN tickerC + 1 ELSE tickerC
    /\ ticked' = TRUE
    /\ UNCHANGED << eventqueue, pc, jsontasks, jsonapps, Apps, LastUpdates,
                    now, nginxConf, tmpFile, tmpFiles, created, offers,
                    lastOffer, owed, started, validated, outcome, gap,
                    healthVars, streamVars, lockVars, fetchVars, burstVars >>

\* case <-ticker.C
workerTick ==
    /\ pc = "tick"
    /\ tickerC > 0
    /\ tickerC' = tickerC - 1
    /\ pc' = "dequeue"
    /\ UNCHANGED << ticked, gap, eventqueue, jsontasks, jsonapps, Apps,
                    LastUpdates, now, nginxConf, tmpFile, tmpFiles, created,
                    offers, lastOffer, owed, started, validated, outcome,
                    healthVars, streamVars, lockVars, fetchVars, burstVars >>

\* workerDequeue with the token left in the channel
workerDequeueKeepsToken ==
    /\ pc = "dequeue"
    /\ eventqueue > 0
    /\ eventqueue' = eventqueue
    /\ pc' = "fetch"
    /\ jsontasks' = << >>
    /\ jsonapps' = << >>
    /\ owed' = FALSE
    /\ started' = [nginxConf |-> nginxConf, LastUpdates |-> LastUpdates]
    /\ validated' = 0
    /\ tmpFile' = 0
    /\ outcome' = "running"
    /\ gap' = IF outcome = "none" THEN "first"
              ELSE IF ticked THEN "ticked" ELSE "same period"
    /\ ticked' = FALSE
    /\ sinceOffer' = IF sinceOffer <= eventqueueCap THEN sinceOffer + 1
                     ELSE sinceOffer
    /\ UNCHANGED << duringAttempt, tickerC, Apps, LastUpdates, now,
                    nginxConf, tmpFiles, created, offers, lastOffer,
                    healthVars, streamVars, lockVars, fetchVars >>

\* workerDequeue with a receive that does not block on an empty channel
workerDequeueNoWait ==
    /\ pc = "dequeue"
    /\ eventqueue' = eventqueue - 1
    /\ pc' = "fetch"
    /\ jsontasks' = << >>
    /\ jsonapps' = << >>
    /\ owed' = FALSE
    /\ started' = [nginxConf |-> nginxConf, LastUpdates |-> LastUpdates]
    /\ validated' = 0
    /\ tmpFile' = 0
    /\ outcome' = "running"
    /\ gap' = IF outcome = "none" THEN "first"
              ELSE IF ticked THEN "ticked" ELSE "same period"
    /\ ticked' = FALSE
    /\ sinceOffer' = IF sinceOffer <= eventqueueCap THEN sinceOffer + 1
                     ELSE sinceOffer
    /\ UNCHANGED << duringAttempt, tickerC, Apps, LastUpdates, now,
                    nginxConf, tmpFiles, created, offers, lastOffer,
                    healthVars, streamVars, lockVars, fetchVars >>

\* <-eventqueue, then reload() is called
workerDequeue ==
    /\ pc = "dequeue"
    /\ eventqueue > 0
    /\ eventqueue' = eventqueue - 1
    /\ pc' = "fetch"
    /\ jsontasks' = << >>
    /\ jsonapps' = << >>
    /\ owed' = FALSE
    /\ started' = [nginxConf |-> nginxConf, LastUpdates |-> LastUpdates]
    /\ validated' = 0
    /\ tmpFile' = 0
    /\ outcome' = "running"
    /\ gap' = IF outcome = "none" THEN "first"
              ELSE IF ticked THEN "ticked" ELSE "same period"
    /\ ticked' = FALSE
    /\ sinceOffer' = IF sinceOffer <= eventqueueCap THEN sinceOffer + 1
                     ELSE sinceOffer
    /\ UNCHANGED << duringAttempt, tickerC, Apps, LastUpdates, now,
                    nginxConf, tmpFiles, created, offers, lastOffer,
                    healthVars, streamVars, lockVars, fetchVars >>

\* failed with the loop of eventWorker left on an error
failedStops(stage) ==
    /\ pc' = "stopped"
    /\ outcome' = stage

\* reload returns err to eventWorker, which goes back to its ticker
failed(stage) ==
    /\ pc' = "tick"
    /\ outcome' = stage

\* for _, es := range health.Endpoints { if es.Healthy == true {
\* endpoint = es.Endpoint; break } }: "" when no endpoint is healthy
RECURSIVE selectLoop(_, _)
selectLoop(endpoints, i) ==
    IF i > Len(endpoints) THEN ""
    ELSE IF endpoints[i].Healthy = TRUE THEN endpoints[i].Endpoint
    ELSE selectLoop(endpoints, i + 1)

\* selectEndpoint with the test for healthy left out
firstEndpoint(endpoints) ==
    IF endpoints = << >> THEN "" ELSE endpoints[1].Endpoint

\* the first healthy endpoint of health.Endpoints, "" when there is none
selectEndpoint(endpoints) == selectLoop(endpoints, 1)

\* fetchAppsDown with config.Apps emptied, as syncApps leaves it for an
\* answer without apps
fetchAppsDownEmptiesApps ==
    /\ pc = "fetch"
    /\ selectEndpoint(health) = ""
    /\ fetchEndpoint' = ""
    /\ Apps' = emptyApps
    /\ failed("endpointsDown")
    /\ UNCHANGED << health, mpc, lastProbe, eventqueue, jsontasks, jsonapps,
                    LastUpdates, now, nginxConf, tmpFile, tmpFiles, created,
                    offers, lastOffer, owed, started, validated, tickVars,
                    streamVars, lockVars, fetchVars, burstVars >>

\* fetchApps finds no healthy endpoint and returns "all endpoints are down"
fetchAppsDown ==
    /\ pc = "fetch"
    /\ selectEndpoint(health) = ""
    /\ fetchEndpoint' = ""
    /\ failed("endpointsDown")
    /\ UNCHANGED << health, mpc, lastProbe, eventqueue, jsontasks, jsonapps,
                    Apps, LastUpdates, now, nginxConf, tmpFile, tmpFiles,
                    created, offers, lastOffer, owed, started, validated,
                    tickVars, streamVars, lockVars, fetchVars, burstVars >>

\* fetchApps returns the error of one of its two requests
fetchAppsFail ==
    /\ pc = "fetch"
    /\ selectEndpoint(health) # ""
    /\ fetchEndpoint' = selectEndpoint(health)
    /\ failed("fetchFail")
    /\ UNCHANGED << health, mpc, lastProbe, eventqueue, jsontasks, jsonapps,
                    Apps, LastUpdates, now, nginxConf, tmpFile, tmpFiles,
                    created, offers, lastOffer, owed, started, validated,
                    tickVars, streamVars, lockVars, fetchVars, burstVars >>

\* fetchApps decoded both answers
fetchAppsOk ==
    /\ pc = "fetch"
    /\ selectEndpoint(health) # ""
    /\ fetchEndpoint' = selectEndpoint(health)
    /\ \E in \in FetchedInputs :
          /\ jsontasks' = in.tasks
          /\ jsonapps' = in.apps
    /\ pc' = "sync"
    /\ UNCHANGED << health, mpc, lastProbe, eventqueue, Apps, LastUpdates,
                    now, nginxConf, tmpFile, tmpFiles, created, offers,
                    lastOffer, owed, started, validated, outcome, tickVars,
                    streamVars, lockVars, fetchVars, burstVars >>

\* materialize with the map of the last sync kept and added to
materializeMerging ==
    /\ pc = "sync"
    /\ LET r == syncLoop(jsontasks, jsonapps, 1, 1,
                        [Apps |-> Apps, panicked |-> FALSE])
       IN  /\ Apps' = r.Apps
           /\ IF r.panicked
              THEN /\ pc' = "crashed"
                   /\ UNCHANGED << now, LastUpdates >>
              ELSE /\ pc' = "render"
                   /\ now' = now + 1
                   /\ LastUpdates' = [LastUpdates EXCEPT !.LastSync = now + 1]
    /\ UNCHANGED << eventqueue, jsontasks, jsonapps, nginxConf, tmpFile,
                    tmpFiles, created, offers, lastOffer, owed, started,
                    validated, outcome, tickVars, healthVars, streamVars,
                    lockVars, fetchVars, burstVars >>

\* syncApps(&jsontasks, &jsonapps); config.LastUpdates.LastSync = time.Now()
\* A panic of syncApps ends the process.
materialize ==
    /\ pc = "sync"
    /\ LET r == syncApps(jsontasks, jsonapps)
       IN  /\ Apps' = r.Apps
           /\ IF r.panicked
              THEN /\ pc' = "crashed"
                   /\ UNCHANGED << now, LastUpdates >>
              ELSE /\ pc' = "render"
                   /\ now' = now + 1
                   /\ LastUpdates' = [LastUpdates EXCEPT !.LastSync = now + 1]
    /\ UNCHANGED << eventqueue, jsontasks, jsonapps, nginxConf, tmpFile,
                    tmpFiles, created, offers, lastOffer, owed, started,
                    validated, outcome, tickVars, healthVars, streamVars,
                    lockVars, fetchVars, burstVars >>

\* writeConf: the template does not parse
writeConfParseFail ==
    /\ pc = "render"
    /\ failed("renderFail")
    /\ UNCHANGED << eventqueue, jsontasks, jsonapps, Apps, LastUpdates, now,
                    nginxConf, tmpFile, tmpFiles, created, offers, lastOffer,
                    owed, started, validated, tickVars, healthVars,
                    streamVars, lockVars, fetchVars, burstVars >>

\* writeConfExecuteFail with the template executed into config.Nginx_config
writeConfExecuteFailInPlace ==
    /\ pc = "render"
    /\ nginxConf' = [name |-> 0, data |-> render(Apps, LastUpdates, FALSE)]
    /\ failed("renderFail")
    /\ UNCHANGED << eventqueue, jsontasks, jsonapps, Apps, LastUpdates, now,
                    tmpFile, tmpFiles, created, offers, lastOffer, owed,
                    started, validated, tickVars, healthVars, streamVars,
                    lockVars, fetchVars, burstVars >>

\* writeConf: ioutil.TempFile made the file, template.Execute failed
writeConfExecuteFail ==
    /\ pc = "render"
    /\ created' = created + 1
    /\ tmpFile' = created + 1
    /\ tmpFiles' = put(tmpFiles, created + 1, render(Apps, LastUpdates, FALSE))
    /\ failed("renderFail")
    /\ UNCHANGED << eventqueue, jsontasks, jsonapps, Apps, LastUpdates, now,
                    nginxConf, offers, lastOffer, owed, started, validated,
                    tickVars, healthVars, streamVars, lockVars, fetchVars,
                    burstVars >>

\* writeConf: the template was rendered into a new temp file;
\* config.LastUpdates.LastConfigRendered = time.Now()
writeConfRender ==
    /\ pc = "render"
    /\ created' = created + 1
    /\ tmpFile' = created + 1
    /\ tmpFiles' = put(tmpFiles, created + 1, render(Apps, LastUpdates, TRUE))
    /\ now' = now + 1
    /\ LastUpdates' = [LastUpdates EXCEPT !.LastConfigRendered = now + 1]
    /\ pc' = "check"
    /\ UNCHANGED << eventqueue, jsontasks, jsonapps, Apps, nginxConf, offers,
                    lastOffer, owed, started, validated, outcome, tickVars,
                    healthVars, streamVars, lockVars, fetchVars, burstVars >>

\* writeConfCheckFail with the error of checkConf not stopping the rename
writeConfCheckFailInstalls ==
    /\ pc = "check"
    /\ nginxConf' = [name |-> tmpFile, data |-> tmpFiles[tmpFile]]
    /\ failed("invalidConf")
    /\ UNCHANGED << eventqueue, jsontasks, jsonapps, Apps, LastUpdates, now,
                    tmpFile, tmpFiles, created, offers, lastOffer, owed,
                    started, validated, tickVars, healthVars, streamVars,
                    lockVars, fetchVars, burstVars >>

\* writeConf: checkConf(tmpFile.Name()) returns an error
writeConfCheckFail ==
    /\ pc = "check"
    /\ failed("invalidConf")
    /\ UNCHANGED << eventqueue, jsontasks, jsonapps, Apps, LastUpdates, now,
                    nginxConf, tmpFile, tmpFiles, created, offers, lastOffer,
                    owed, started, validated, tickVars, healthVars,
                    streamVars, lockVars, fetchVars, burstVars >>

\* writeConf: nginx -c tmpFile -t exited 0
writeConfCheckOk ==
    /\ pc = "check"
    /\ validated' = tmpFile
    /\ pc' = "rename"
    /\ UNCHANGED << eventqueue, jsontasks, jsonapps, Apps, LastUpdates, now,
                    nginxConf, tmpFile, tmpFiles, created, offers, lastOffer,
                    owed, started, outcome, tickVars, healthVars, streamVars,
                    lockVars, fetchVars, burstVars >>

\* writeConfRenameFail with LastConfigValid set before the rename
writeConfRenameFailStamps ==
    /\ pc = "rename"
    /\ now' = now + 1
    /\ LastUpdates' = [LastUpdates EXCEPT !.LastConfigValid = now + 1]
    /\ failed("renameFail")
    /\ UNCHANGED << eventqueue, jsontasks, jsonapps, Apps, nginxConf, tmpFile,
                    tmpFiles, created, offers, lastOffer, owed, started,
                    validated, tickVars, healthVars, streamVars, lockVars,
                    fetchVars, burstVars >>

\* writeConf: os.Rename returns an error
writeConfRenameFail ==
    /\ pc = "rename"
    /\ failed("renameFail")
    /\ UNCHANGED << eventqueue, jsontasks, jsonapps, Apps, LastUpdates, now,
                    nginxConf, tmpFile, tmpFiles, created, offers, lastOffer,
                    owed, started, validated, tickVars, healthVars,
                    streamVars, lockVars, fetchVars, burstVars >>

\* tmpFiles without the file f
remove(files, f) == [k \in DOMAIN files \ {f} |-> files[k]]

\* writeConf: os.Rename(tmpFile.Name(), config.Nginx_config) and return nil;
\* config.LastUpdates.LastConfigValid = time.Now()
writeConfRename ==
    /\ pc = "rename"
    /\ nginxConf' = [name |-> tmpFile, data |-> tmpFiles[tmpFile]]
    /\ tmpFiles' = remove(tmpFiles, tmpFile)
    /\ now' = now + 1
    /\ LastUpdates' = [LastUpdates EXCEPT !.LastConfigValid = now + 1]
    /\ pc' = "signal"
    /\ UNCHANGED << eventqueue, jsontasks, jsonapps, Apps, tmpFile, created,
                    offers, lastOffer, owed, started, validated, outcome,
                    tickVars, healthVars, streamVars, lockVars, fetchVars,
                    burstVars >>

\* reloadNginx returns an error
reloadNginxFail ==
    /\ pc = "signal"
    /\ failed("reloadFail")
    /\ UNCHANGED << eventqueue, jsontasks, jsonapps, Apps, LastUpdates, now,
                    nginxConf, tmpFile, tmpFiles, created, offers, lastOffer,
                    owed, started, validated, tickVars, healthVars,
                    streamVars, lockVars, fetchVars, burstVars >>

\* nginx -s reload exited 0; config.LastUpdates.LastNginxReload = time.Now()
reloadNginxOk ==
    /\ pc = "signal"
    /\ now' = now + 1
    /\ LastUpdates' = [LastUpdates EXCEPT !.LastNginxReload = now + 1]
    /\ pc' = "tick"
    /\ outcome' = "ok"
    /\ UNCHANGED << eventqueue, jsontasks, jsonapps, Apps, nginxConf, tmpFile,
                    tmpFiles, created, offers, lastOffer, owed, started,
                    validated, tickVars, healthVars, streamVars, lockVars,
                    fetchVars, burstVars >>

\* the steps of the goroutine of eventWorker
worker ==
    \/ workerTick
    \/ workerDequeue
    \/ fetchAppsFail
    \/ fetchAppsOk
    \/ materialize
    \/ writeConfParseFail
    \/ writeConfExecuteFail
    \/ writeConfRender
    \/ writeConfCheckFail
    \/ writeConfCheckOk
    \/ writeConfRenameFail
    \/ writeConfRename
    \/ reloadNginxFail
    \/ reloadNginxOk

Next ==
    \/ eventStreamEvent
    \/ nixy_reload
    \/ tickerFires
    \/ worker

Spec == Init /\ [][Next]_vars

\* the ticker keeps ticking, a token in the queue is received, and every
\* call that reload makes ends: syncApps, which has no outcome to choose,
\* returns or panics
LiveSpec ==
    /\ Spec
    /\ WF_vars(tickerFires)
    /\ WF_vars(workerTick)
    /\ WF_vars(workerDequeue)
    /\ WF_vars(fetchAppsFail \/ fetchAppsOk)
    /\ []<>(pc # "sync")
    /\ WF_vars(writeConfParseFail \/ writeConfExecuteFail \/ writeConfRender)
    /\ WF_vars(writeConfCheckFail \/ writeConfCheckOk)
    /\ WF_vars(writeConfRenameFail \/ writeConfRename)
    /\ WF_vars(reloadNginxFail \/ reloadNginxOk)

(***************************************************************************)
(* endpointHealth.                                                         *)
(***************************************************************************)
\* case <-ticker.C of endpointHealth: the range over health.Endpoints starts
healthTick ==
    /\ mpc = 0
    /\ mpc' = 1
    /\ UNCHANGED << health, lastProbe, fetchEndpoint, eventqueue, pc,
                    jsontasks, jsonapps, Apps, LastUpdates, now, nginxConf,
                    tmpFile, tmpFiles, created, offers, lastOffer, owed,
                    started, validated, outcome, tickVars, streamVars,
                    lockVars, fetchVars, burstVars >>

\* how a GET of es.Endpoint + "/ping" can end: resp.Status, or "error" when
\* http.NewRequest or client.Do returned an error
ProbeResults == {"200 OK", "500 Internal Server Error", "error"}

\* setStatus with every answer of the endpoint taken as healthy
setStatusAlwaysHealthy(es, result) ==
    [Endpoint |-> es.Endpoint, Healthy |-> TRUE, Message |-> "OK"]

\* the assignments to health.Endpoints[i].Healthy and .Message
setStatus(es, result) ==
    IF result = "error"
    THEN [Endpoint |-> es.Endpoint, Healthy |-> FALSE,
          Message |-> "err.Error()"]
    ELSE IF result # "200 OK"
    THEN [Endpoint |-> es.Endpoint, Healthy |-> FALSE, Message |-> result]
    ELSE [Endpoint |-> es.Endpoint, Healthy |-> TRUE, Message |-> "OK"]

\* one iteration of the range over health.Endpoints
probe(result) ==
    /\ mpc \in DOMAIN health
    /\ health' = [health EXCEPT ![mpc] = setStatus(health[mpc], result)]
    /\ lastProbe' = [lastProbe EXCEPT ![mpc] = result]
    /\ mpc' = IF mpc = Len(health) THEN 0 ELSE mpc + 1
    /\ UNCHANGED << fetchEndpoint, eventqueue, pc, jsontasks, jsonapps, Apps,
                    LastUpdates, now, nginxConf, tmpFile, tmpFiles, created,
                    offers, lastOffer, owed, started, validated, outcome,
                    tickVars, streamVars, lockVars, fetchVars, burstVars >>

endpointHealth ==
    \/ healthTick
    \/ \E result \in ProbeResults : probe(result)

(***************************************************************************)
(* eventStream and the timers of its requests. Time is counted in units of *)
(* 5 s; a timer that is due runs its function before time goes on.         *)
(***************************************************************************)
\* what eventWorker, reload and the producers own
reloadVars ==
    << eventqueue, pc, jsontasks, jsonapps, Apps, LastUpdates, now,
       nginxConf, tmpFile, tmpFiles, created, offers, lastOffer, owed,
       started, validated, outcome, tickVars, lockVars, fetchVars,
       burstVars >>

\* 15 * time.Second, in units of 5 s
watchdog == 3

\* 100 * time.Millisecond, in units of 5 s: due before time goes on
expire == 0

\* the request of eventStream is open: client.Do or the read loop runs
open == spc \in {"do", "read"}

\* for _ = range ticker.C: the endpoint is selected, the request, its channel
\* cancel and its timer are made, client.Do(req) is called
streamTick ==
    /\ spc = "tick"
    /\ req < MaxRequests
    /\ LET endpoint == selectEndpoint(health)
       IN  /\ streamEndpoint' = endpoint
           /\ IF endpoint = ""
              THEN UNCHANGED << spc, req, timer, cancel, fires, quiet,
                                sinceArmed >>
              ELSE /\ req' = req + 1
                   /\ timer' = Append(timer, watchdog)
                   /\ cancel' = Append(cancel, FALSE)
                   /\ fires' = Append(fires, 0)
                   /\ quiet' = 0
                   /\ sinceArmed' = 0
                   /\ spc' = "do"
    /\ UNCHANGED << reloadVars, healthVars >>

\* client.Do returns an error: timer.Reset(100 * time.Millisecond); continue
streamDoFail ==
    /\ spc = "do"
    /\ timer' = [timer EXCEPT ![req] = expire]
    /\ spc' = "tick"
    /\ UNCHANGED << streamEndpoint, req, cancel, fires, quiet, sinceArmed,
                    reloadVars, healthVars >>

\* client.Do returns the response; the read loop resets the timer and calls
\* reader.ReadString
streamDoOk ==
    /\ spc = "do"
    /\ ~cancel[req]
    /\ timer' = [timer EXCEPT ![req] = watchdog]
    /\ sinceArmed' = 0
    /\ spc' = "read"
    /\ UNCHANGED << streamEndpoint, req, cancel, fires, quiet, reloadVars,
                    healthVars >>

\* lineRead with the timer left as it is
lineReadNoReset ==
    /\ spc = "read"
    /\ quiet' = 0
    /\ sinceArmed' = 0
    /\ UNCHANGED << timer, spc, streamEndpoint, req, cancel, fires >>

\* ReadString returns a complete line (one that was buffered can be returned
\* after cancel was closed); the loop goes on with timer.Reset(15 *
\* time.Second) and the next ReadString
lineRead ==
    /\ spc = "read"
    /\ timer' = [timer EXCEPT ![req] = watchdog]
    /\ quiet' = 0
    /\ sinceArmed' = 0
    /\ UNCHANGED << spc, streamEndpoint, req, cancel, fires >>

\* the line does not start with "event: ": continue
streamReadOther ==
    /\ lineRead
    /\ UNCHANGED << reloadVars, healthVars >>

\* the line starts with "event: ": select on eventqueue
streamReadEvent ==
    /\ lineRead
    /\ offers < MaxOffers
    /\ sendToken("eventStream")
    /\ UNCHANGED << pc, jsontasks, jsonapps, Apps, LastUpdates, now,
                    nginxConf, tmpFile, tmpFiles, created, started,
                    validated, outcome, tickVars, healthVars, lockVars,
                    fetchVars >>

\* ReadString returns an error: resp.Body.Close(); break; the timer of the
\* request is left as it is
streamReadFail ==
    /\ spc = "read"
    /\ spc' = "tick"
    /\ UNCHANGED << streamEndpoint, req, timer, cancel, fires, quiet,
                    sinceArmed, reloadVars, healthVars >>

\* timerFunc without recover(): close of a closed channel ends the process
timerFuncNoRecover(r) ==
    /\ cancel' = [cancel EXCEPT ![r] = TRUE]
    /\ spc' = IF cancel[r] THEN "crashed" ELSE spc

\* defer func() { recover() }(); defer close(cancel): the panic of closing
\* a closed channel is recovered
timerFunc(r) ==
    /\ cancel' = [cancel EXCEPT ![r] = TRUE]
    /\ spc' = spc

\* the timer of request r is due and runs its function
timerFires(r) ==
    /\ spc # "crashed"
    /\ r \in DOMAIN timer
    /\ timer[r] = 0
    /\ timer' = [timer EXCEPT ![r] = -1]
    /\ fires' = [fires EXCEPT ![r] = IF @ < 2 THEN @ + 1 ELSE @]
    /\ timerFunc(r)
    /\ UNCHANGED << streamEndpoint, req, quiet, sinceArmed, reloadVars,
                    healthVars >>

\* 5 s pass while no timer is due
timePasses ==
    /\ spc # "crashed"
    /\ \A r \in DOMAIN timer : timer[r] # 0
    /\ timer' = [r \in DOMAIN timer |->
                    IF timer[r] > 0 THEN timer[r] - 1 ELSE timer[r]]
    /\ quiet' = IF open /\ quiet <= watchdog THEN quiet + 1 ELSE quiet
    /\ sinceArmed' =
          IF open /\ sinceArmed <= watchdog THEN sinceArmed + 1
          ELSE sinceArmed
    /\ UNCHANGED << spc, streamEndpoint, req, cancel, fires, reloadVars,
                    healthVars >>

eventStream ==
    \/ streamTick
    \/ streamDoFail
    \/ streamDoOk
    \/ streamReadOther
    \/ streamReadEvent
    \/ streamReadFail

StreamNext ==
    \/ eventStream
    \/ \E r \in 1..MaxRequests : timerFires(r)
    \/ timePasses

StreamSpec == Init /\ [][StreamNext]_vars

(***************************************************************************)
(* endpointHealth with the two users of health.Endpoints: eventWorker up   *)
(* to the return of fetchApps and eventStream up to the return of          *)
(* client.Do.                                                              *)
(***************************************************************************)
HealthNext ==
    \/ endpointHealth
    \/ streamTick
    \/ streamDoFail
    \/ nixy_reload
    \/ tickerFires
    \/ workerTick
    \/ workerDequeue
    \/ fetchAppsDown
    \/ fetchAppsFail
    \/ fetchAppsOk

HealthSpec == Init /\ [][HealthNext]_vars

(***************************************************************************)
(* fetchApps with its two goroutines and their channels, in eventWorker up *)
(* to the return of fetchApps (Spec has the rest of reload).               *)
(***************************************************************************)
\* what fetchApps and its goroutines leave alone
fetchedVars ==
    << eventqueue, Apps, LastUpdates, now, nginxConf, tmpFile, tmpFiles,
       created, offers, lastOffer, owed, started, validated, tickVars,
       streamVars, lockVars, burstVars >>

\* an endpoint is selected, appschn and taskschn are made, the two
\* goroutines are started, fetchApps waits in <-appschn
fetchStart ==
    /\ pc = "fetch"
    /\ fpc = "idle"
    /\ selectEndpoint(health) # ""
    /\ fetchEndpoint' = selectEndpoint(health)
    /\ sub' = [s \in Subtasks |-> [at |-> "running", err |-> "none"]]
    /\ received' = [s \in Subtasks |-> "none"]
    /\ finished' = << >>
    /\ fpc' = "appschn"
    /\ UNCHANGED << pc, outcome, jsontasks, jsonapps, fetchErr, health, mpc,
                    lastProbe, fetchedVars >>

\* a goroutine fails in http.NewRequest, client.Do or Decode and goes to
\* send its error
subFail(s) ==
    /\ sub[s].at = "running"
    /\ sub' = [sub EXCEPT ![s] = [at |-> "sending", err |-> s \o " error"]]
    /\ finished' = Append(finished, s)
    /\ UNCHANGED << pc, outcome, jsontasks, jsonapps, fpc, received,
                    fetchErr, healthVars, fetchedVars >>

\* a goroutine has decoded its answer and goes to send nil
subOk(s) ==
    /\ sub[s].at = "running"
    /\ \E in \in FetchedInputs :
          IF s = "tasks"
          THEN jsontasks' = in.tasks /\ UNCHANGED jsonapps
          ELSE jsonapps' = in.apps /\ UNCHANGED jsontasks
    /\ sub' = [sub EXCEPT ![s] = [at |-> "sending", err |-> "nil"]]
    /\ finished' = Append(finished, s)
    /\ UNCHANGED << pc, outcome, fpc, received, fetchErr, healthVars,
                    fetchedVars >>

\* receive(s) with fetchApps returning the error of appschn at once
receiveOrReturn(s) ==
    /\ fpc = s \o "chn"
    /\ sub[s].at = "sending"
    /\ received' = [received EXCEPT ![s] = sub[s].err]
    /\ sub' = [sub EXCEPT ![s].at = "done"]
    /\ fpc' = IF s = "apps" /\ sub[s].err = "nil" THEN "taskschn"
              ELSE "return"
    /\ UNCHANGED << pc, outcome, jsontasks, jsonapps, fetchErr, finished,
                    healthVars, fetchedVars >>

\* appserr := <-appschn, then taskserr := <-taskschn: the channels have no
\* buffer, the send of a goroutine and the receive of fetchApps are one step
receive(s) ==
    /\ fpc = s \o "chn"
    /\ sub[s].at = "sending"
    /\ received' = [received EXCEPT ![s] = sub[s].err]
    /\ sub' = [sub EXCEPT ![s].at = "done"]
    /\ fpc' = IF s = "apps" THEN "taskschn" ELSE "return"
    /\ UNCHANGED << pc, outcome, jsontasks, jsonapps, fetchErr, finished,
                    healthVars, fetchedVars >>

\* fetchError with the error of the goroutine that finished first, as a
\* select on appschn and taskschn would return it
fetchErrorOfFirst(appserr, taskserr) ==
    IF finished # << >> /\ finished[1] = "tasks" /\ taskserr # "nil"
    THEN taskserr
    ELSE IF appserr # "nil" THEN appserr
    ELSE IF taskserr # "nil" THEN taskserr
    ELSE "nil"

\* if appserr != nil { return appserr }; if taskserr != nil { return
\* taskserr }; return nil
fetchError(appserr, taskserr) ==
    IF appserr # "nil" THEN appserr
    ELSE IF taskserr # "nil" THEN taskserr
    ELSE "nil"

\* fetchApps returns to reload
fetchReturn ==
    /\ fpc = "return"
    /\ fpc' = "idle"
    /\ fetchErr' = fetchError(received["apps"], received["tasks"])
    /\ IF fetchErr' = "nil"
       THEN pc' = "sync" /\ UNCHANGED outcome
       ELSE failed("fetchFail")
    /\ UNCHANGED << jsontasks, jsonapps, sub, received, finished,
                    healthVars, fetchedVars >>

fetchApps ==
    \/ fetchStart
    \/ \E s \in Subtasks : subFail(s)
    \/ \E s \in Subtasks : subOk(s)
    \/ \E s \in Subtasks : receive(s)
    \/ fetchReturn

FetchNext ==
    \/ nixy_reload
    \/ tickerFires
    \/ workerTick
    \/ workerDequeue
    \/ fetchApps

FetchSpec == Init /\ [][FetchNext]_vars

(***************************************************************************)
(* The mutex of config: reload up to writeConf, with syncApps in the steps  *)
(* that other goroutines can come between, the handlers that read config   *)
(* and endpointHealth (Spec has the rest of reload).                       *)
(***************************************************************************)
\* what the lock and the handlers leave alone
unlockedVars ==
    << eventqueue, jsontasks, jsonapps, nginxConf, tmpFile, tmpFiles,
       created, offers, lastOffer, owed, started, validated, outcome,
       tickVars, healthVars, streamVars, fetchVars, burstVars >>

\* config.Lock(); defer config.Unlock(); config.Apps = make(map[string]App)
syncAppsLock ==
    /\ pc = "sync"
    /\ locked' = TRUE
    /\ Apps' = emptyApps
    /\ pc' = "syncing"
    /\ UNCHANGED << observed, LastUpdates, now, unlockedVars >>

\* the loops of syncApps and the deferred config.Unlock(), which also runs
\* when syncApps panics
syncAppsRebuild ==
    /\ pc = "syncing"
    /\ LET r == syncApps(jsontasks, jsonapps)
       IN  /\ Apps' = r.Apps
           /\ pc' = IF r.panicked THEN "crashed" ELSE "synced"
    /\ locked' = FALSE
    /\ UNCHANGED << observed, LastUpdates, now, unlockedVars >>

\* config.LastUpdates.LastSync = time.Now() in reload
reloadLastSync ==
    /\ pc = "synced"
    /\ now' = now + 1
    /\ LastUpdates' = [LastUpdates EXCEPT !.LastSync = now + 1]
    /\ pc' = "render"
    /\ UNCHANGED << Apps, lockVars, unlockedVars >>

\* a handler reads config: no RLock is taken, the read does not wait
readConfig(handler) ==
    /\ pc # "crashed"
    /\ observed' = [by |-> handler, locked |-> locked]
    /\ UNCHANGED << locked, pc, Apps, LastUpdates, now, unlockedVars >>

\* the handler of /v1/config: json.MarshalIndent(config, "", "  ")
nixy_config == readConfig("nixy_config")

\* the handler of /v1/health: checkTmpl executes the template on config
nixy_health == readConfig("nixy_health")

LockNext ==
    \/ nixy_reload
    \/ tickerFires
    \/ workerTick
    \/ workerDequeue
    \/ fetchAppsFail
    \/ fetchAppsOk
    \/ syncAppsLock
    \/ syncAppsRebuild
    \/ reloadLastSync
    \/ nixy_config
    \/ nixy_health
    \/ endpointHealth

LockSpec == Init /\ [][LockNext]_vars

(***************************************************************************)
(* syncApps on its own, for every decoded task list and app list within    *)
(* the bounds.                                                             *)
(***************************************************************************)
SyncInit ==
    /\ tickerInit
    /\ healthInit
    /\ streamInit
    /\ lockInit
    /\ fetchInit
    /\ burstInit
    /\ eventqueue = 0
    /\ pc = "sync"
    /\ jsontasks \in TaskLists
    /\ jsonapps \in AppLists
    /\ Apps = emptyApps
    /\ LastUpdates = zeroUpdates
    /\ now = 0
    /\ nginxConf = installedConf
    /\ tmpFile = 0
    /\ tmpFiles = [f \in {} |-> << >>]
    /\ created = 0
    /\ offers = 0
    /\ lastOffer = [by |-> "none", result |-> "none"]
    /\ owed = FALSE
    /\ started = [nginxConf |-> nginxConf, LastUpdates |-> LastUpdates]
    /\ validated = 0
    /\ outcome = "running"

SyncNext == materialize

SyncSpec == SyncInit /\ [][SyncNext]_vars

(***************************************************************************)
(* syncApps on its own, for every value of the `frontends` label.          *)
(***************************************************************************)
FrontendInit ==
    /\ tickerInit
    /\ healthInit
    /\ streamInit
    /\ lockInit
    /\ fetchInit
    /\ burstInit
    /\ eventqueue = 0
    /\ pc = "sync"
    /\ jsontasks \in HealthyTaskLists
    /\ jsonapps \in LabelledAppLists
    /\ Apps = emptyApps
    /\ LastUpdates = zeroUpdates
    /\ now = 0
    /\ nginxConf = installedConf
    /\ tmpFile = 0
    /\ tmpFiles = [f \in {} |-> << >>]
    /\ created = 0
    /\ offers = 0
    /\ lastOffer = [by |-> "none", result |-> "none"]
    /\ owed = FALSE
    /\ started = [nginxConf |-> nginxConf, LastUpdates |-> LastUpdates]
    /\ validated = 0
    /\ outcome = "running"

FrontendSpec == FrontendInit /\ [][SyncNext]_vars

(***************************************************************************)
(* syncApps on its own, called when config.Apps holds the map of an        *)
(* earlier reload.                                                         *)
(***************************************************************************)
\* an earlier answer of Marathon: the apps /web and /db with one task each
StaleTasks ==
    << [AppId |-> "/web", Host |-> "hostC", Ports |-> << 31003, 31013 >>,
        HealthCheckResults |-> << >>],
       [AppId |-> "/db", Host |-> "hostD", Ports |-> << 31004 >>,
        HealthCheckResults |-> << >>] >>

StaleApps ==
    << [Id |-> "/web", Labels |-> frontendsLabel(LabelShop),
        Env |-> noLabels, HealthChecks |-> << >>],
       [Id |-> "/db", Labels |-> noLabels,
        Env |-> noLabels, HealthChecks |-> << >>] >>

\* config.Apps as an earlier reload left it
PriorMaps ==
    {syncApps(StaleTasks, StaleApps).Apps,
     syncApps(HappyTasks, HappyApps).Apps}

ResyncInit ==
    /\ tickerInit
    /\ healthInit
    /\ streamInit
    /\ lockInit
    /\ fetchInit
    /\ burstInit
    /\ eventqueue = 0
    /\ pc = "sync"
    /\ jsontasks \in HealthyTaskLists
    /\ jsonapps \in LabelledAppLists
    /\ Apps \in PriorMaps
    /\ LastUpdates = zeroUpdates
    /\ now = 0
    /\ nginxConf = installedConf
    /\ tmpFile = 0
    /\ tmpFiles = [f \in {} |-> << >>]
    /\ created = 0
    /\ offers = 0
    /\ lastOffer = [by |-> "none", result |-> "none"]
    /\ owed = FALSE
    /\ started = [nginxConf |-> nginxConf, LastUpdates |-> LastUpdates]
    /\ validated = 0
    /\ outcome = "running"

ResyncSpec == ResyncInit /\ [][SyncNext]_vars

(***************************************************************************)
(* The endpoints going down after a reload has succeeded: endpointHealth   *)
(* with eventWorker up to the return of fetchApps and eventStream up to    *)
(* the return of client.Do, started where the first reload left nixy.      *)
(***************************************************************************)
\* config.LastUpdates after the first reload: one time.Now() per stamp
reloadedUpdates ==
    [LastSync |-> 1, LastConfigRendered |-> 2,
     LastConfigValid |-> 3, LastNginxReload |-> 4]

\* the file writeConf renamed to config.Nginx_config in the first reload; it
\* was rendered when only LastSync was set
reloadedConf ==
    [name |-> 1,
     data |-> render(syncApps(HappyTasks, HappyApps).Apps,
                     [zeroUpdates EXCEPT !.LastSync = 1], TRUE)]

\* nixy after /v1/reload was called once and reload() returned nil for the
\* answer HappyTasks, HappyApps of Marathon
ReloadedInit ==
    /\ tickerInit
    /\ health = newHealth
    /\ mpc = 0
    /\ lastProbe = [i \in DOMAIN Marathon |-> "none"]
    /\ fetchEndpoint = Marathon[1]
    /\ streamInit
    /\ lockInit
    /\ fetchInit
    /\ sinceOffer = 1
    /\ duringAttempt = FALSE
    /\ eventqueue = 0
    /\ pc = "tick"
    /\ jsontasks = HappyTasks
    /\ jsonapps = HappyApps
    /\ Apps = syncApps(HappyTasks, HappyApps).Apps
    /\ LastUpdates = reloadedUpdates
    /\ now = 4
    /\ nginxConf = reloadedConf
    /\ tmpFile = 1
    /\ tmpFiles = [f \in {} |-> << >>]
    /\ created = 1
    /\ offers = 1
    /\ lastOffer = [by |-> "nixy_reload", result |-> "queued"]
    /\ owed = FALSE
    /\ started = [nginxConf |-> installedConf, LastUpdates |-> zeroUpdates]
    /\ validated = 1
    /\ outcome = "ok"

DownSpec == ReloadedInit /\ [][HealthNext]_vars

(***************************************************************************)
(* Properties of the reload pipeline and of the reload queue.              *)
(***************************************************************************)
Stamps ==
    {"LastSync", "LastConfigRendered", "LastConfigValid", "LastNginxReload"}

\* the stamps the attempt that last started has advanced
advancedStamps ==
    {f \in Stamps : LastUpdates[f] > started.LastUpdates[f]}

\* no stamp moved backwards since the attempt started
noStampLost ==
    \A f \in Stamps : LastUpdates[f] >= started.LastUpdates[f]

\* the last reload attempt has returned
attemptOver == pc = "tick" /\ outcome \notin {"none", "running"}

\* C1: the file at nginx_config changes only by the rename of the candidate
\* that `nginx -c <candidate> -t` accepted in this attempt, and an attempt
\* whose validation failed leaves the file as it was when the attempt started.
C1_ReplacedOnlyAfterValidation ==
    /\ [][nginxConf' # nginxConf =>
            /\ pc = "rename"
            /\ tmpFile # 0
            /\ validated = tmpFile
            /\ nginxConf' = [name |-> tmpFile, data |-> tmpFiles[tmpFile]]]_vars
    /\ [](outcome = "invalidConf" => nginxConf = started.nginxConf)

\* an attempt failed its validation after an earlier attempt had installed
\* a candidate
C1_Witness ==
    /\ attemptOver
    /\ outcome = "invalidConf"
    /\ nginxConf.name # 0
    /\ tmpFile # nginxConf.name

C3_QueueBounded ==
    /\ [](eventqueue \in 0..2)
    /\ [][offers' # offers =>
            IF eventqueue = 2
            THEN eventqueue' = 2 /\ lastOffer'.result = "full"
            ELSE eventqueue' = eventqueue + 1 /\ lastOffer'.result = "queued"]_vars

\* an offer was dropped on a full queue
C3_Witness ==
    /\ eventqueue = 2
    /\ lastOffer.result = "full"

\* C4: after every offer, accepted or dropped, a reload attempt starts, as
\* long as the process lives (its ticker ticks and reload returns).
C4_OfferLeadsToReload ==
    (owed /\ pc # "crashed") ~> (~owed \/ pc = "crashed")

\* a reload attempt started after an offer that was dropped
C4_Witness ==
    /\ lastOffer.result = "full"
    /\ ~owed
    /\ pc = "fetch"

(***************************************************************************)
(* Properties of syncApps.                                                 *)
(***************************************************************************)
\* syncApps has returned
synced == pc = "render"

\* the slots of the app id in config.Apps
slotsOf(id) == Apps[id].Tasks

\* the entries of the sequence s
elems(s) == {s[i] : i \in 1..Len(s)}

\* the health gate as the specification states it
passesHealthGate(app, task) ==
    Len(app.HealthChecks) >= 1 =>
        /\ Len(task.HealthCheckResults) >= 1
        /\ \A r \in 1..Len(task.HealthCheckResults) :
              task.HealthCheckResults[r] = TRUE

\* the task at position k is one that contributes to the app id
qualifies(k, id) ==
    \E i \in 1..Len(jsonapps) :
        /\ jsonapps[i].Id = id
        /\ jsontasks[k].AppId = id
        /\ Len(jsontasks[k].Ports) >= 1
        /\ passesHealthGate(jsonapps[i], jsontasks[k])

\* every host:port the task at position k can have
entriesOf(k) ==
    {hostPort(jsontasks[k], port) : port \in elems(portsOf(k, MaxPorts))}

\* some slot of the app id holds an entry of the task at position k
appearsIn(k, id) ==
    /\ id \in DOMAIN Apps
    /\ \E p \in 1..Len(slotsOf(id)) : elems(slotsOf(id)[p]) \cap entriesOf(k) # {}

\* C5: after syncApps returns, all slots of an app have the same length, at
\* least 1, and the app has as many slots as each contributing task has ports.
C5_SlotsEqual ==
    synced =>
        \A id \in DOMAIN Apps :
            /\ \A p, q \in 1..Len(slotsOf(id)) :
                  Len(slotsOf(id)[p]) = Len(slotsOf(id)[q])
            /\ \A p \in 1..Len(slotsOf(id)) : Len(slotsOf(id)[p]) >= 1
            /\ \A k \in 1..Len(jsontasks) :
                  qualifies(k, id) =>
                      Len(slotsOf(id)) = Len(jsontasks[k].Ports)

\* C6: after syncApps returns, the entries of a task are in the slots of an
\* app exactly when the task has the id of the app, at least one port, and
\* passes the health gate of the app; its i-th port is then in the i-th slot.
C6_ContributesIff ==
    synced =>
        \A k \in 1..Len(jsontasks) : \A a \in 1..Len(AppIds) :
            /\ appearsIn(k, AppIds[a]) <=> qualifies(k, AppIds[a])
            /\ qualifies(k, AppIds[a]) =>
                  \A p \in 1..Len(jsontasks[k].Ports) :
                      /\ p <= Len(slotsOf(AppIds[a]))
                      /\ hostPort(jsontasks[k], jsontasks[k].Ports[p])
                            \in elems(slotsOf(AppIds[a])[p])

\* under an app with a health check, one task with a failed result and one
\* task with alive results: the second is in the slots
C6_Witness ==
    /\ synced
    /\ Len(jsontasks) = 2
    /\ jsonapps[1].HealthChecks # << >>
    /\ jsontasks[1].AppId = "/web"
    /\ jsontasks[1].HealthCheckResults = << FALSE, TRUE >>
    /\ Len(jsontasks[1].Ports) = 1
    /\ "/web" \in DOMAIN Apps
    /\ slotsOf("/web") = << << "hostB:31002" >> >>

\* the number of tokens of a label: one more than its runs of white space
tokenCount(cs) ==
    1 + Cardinality({i \in 1..Len(cs) :
                        /\ cs[i] \in Spaces
                        /\ i = 1 \/ cs[i - 1] \notin Spaces})

\* the apps of the input that are in config.Apps and have a frontends label
labelledApps ==
    {i \in 1..Len(jsonapps) :
        /\ jsonapps[i].Id \in DOMAIN Apps
        /\ "frontends" \in DOMAIN jsonapps[i].Labels}

labelOf(i) == jsonapps[i].Labels["frontends"]

frontendsOf(i) == Apps[jsonapps[i].Id].Frontends

\* C7: an app whose label has more tokens than the app has slots gets the
\* single error frontend "more frontends defined than ports exposed", and
\* its slots are populated.
C7_TooManyFrontends ==
    synced =>
        \A i \in labelledApps :
            tokenCount(labelOf(i)) > Len(slotsOf(jsonapps[i].Id)) =>
                /\ frontendsOf(i) =
                      << [Type |-> "error",
                          Data |-> << "more frontends defined than ports exposed" >>] >>
                /\ Len(slotsOf(jsonapps[i].Id)) >= 1
                /\ \A p \in 1..Len(slotsOf(jsonapps[i].Id)) :
                      slotsOf(jsonapps[i].Id)[p] # << >>

\* scenario 3: two frontends on an app whose tasks have one port
C7_Witness ==
    /\ synced
    /\ jsonapps[1].Labels = frontendsLabel(LabelTwoDotted)
    /\ "/web" \in DOMAIN Apps
    /\ slotsOf("/web") = << << "hostA:31001", "hostB:31002" >> >>

\* the frontends some labels must give when the app has slots enough
expectedFrontends ==
    << [label |-> LabelWeb,
        frontends |-> << [Type |-> "http", Data |-> << "web" >>] >>],
       [label |-> LabelWebTcp,
        frontends |-> << [Type |-> "http", Data |-> << "web" >>],
                         [Type |-> "tcp", Data |-> << "80" >>] >>],
       [label |-> LabelShop,
        frontends |-> << [Type |-> "shop",
                          Data |-> << "shop.de", "www.shop.de" >>] >>],
       [label |-> LabelWebBogus,
        frontends |-> << [Type |-> "error",
                          Data |-> << "frontend bogus not recognized" >>] >>],
       [label |-> LabelBogusTcp,
        frontends |-> << [Type |-> "error",
                          Data |-> << "frontend bogus not recognized" >>] >>],
       [label |-> LabelGoodBogus,
        frontends |-> << [Type |-> "error",
                          Data |-> << "frontend GOOD.com/http not recognized" >>] >>],
       [label |-> LabelEmptyName,
        frontends |-> << [Type |-> "error",
                          Data |-> << "frontend web,/http-public not recognized" >>] >>],
       [label |-> LabelEmpty,
        frontends |-> << [Type |-> "error",
                          Data |-> << "frontend  not recognized" >>] >>] >>

\* C8: an app whose label has no more tokens than the app has slots gets one
\* frontend per token, in the order of the label, when every token matches
\* the grammar; otherwise it gets the single error frontend that names the
\* first token that does not match.
C8_FirstMalformedToken ==
    synced =>
        \A i \in labelledApps :
            LET tokens == spaceRegexpSplit(labelOf(i))
                bad == {t \in 1..Len(tokens) : ~frontendRegexpMatch(tokens[t])}
                first == CHOOSE t \in bad : \A u \in bad : t <= u
            IN  tokenCount(labelOf(i)) <= Len(slotsOf(jsonapps[i].Id)) =>
                    /\ Len(tokens) = tokenCount(labelOf(i))
                    /\ IF bad = {}
                       THEN /\ Len(frontendsOf(i)) = Len(tokens)
                            /\ \A t \in 1..Len(tokens) :
                                  /\ frontendsOf(i)[t].Type # "error"
                                  /\ frontendsOf(i)[t] = newFrontend(tokens[t])
                       ELSE frontendsOf(i) =
                              << [Type |-> "error",
                                  Data |-> << "frontend " \o Str(tokens[first])
                                              \o " not recognized" >>] >>
                    /\ \A e \in 1..Len(expectedFrontends) :
                          labelOf(i) = expectedFrontends[e].label =>
                              frontendsOf(i) = expectedFrontends[e].frontends

\* a malformed token before a well-formed one, on an app with two slots
C8_Witness ==
    /\ synced
    /\ jsonapps[1].Labels = frontendsLabel(LabelBogusTcp)
    /\ "/web" \in DOMAIN Apps
    /\ Len(slotsOf("/web")) = 2
    /\ Len(frontendsOf(1)) = 1

(***************************************************************************)
(* The scenarios of the specification on the whole pipeline.               *)
(***************************************************************************)
\* a reload attempt on the answers of scenario 1 has succeeded
happyPathDone ==
    /\ attemptOver
    /\ outcome = "ok"
    /\ jsontasks = HappyTasks
    /\ jsonapps = HappyApps

\* C9 as stated: the happy path gives /web the slot [hostA:31001, hostB:31002]
\* and the frontend {http, [example.com]}, and advances the four stamps.
C9_HappyPathHttp ==
    happyPathDone =>
        /\ DOMAIN Apps = {"/web"}
        /\ Apps["/web"].Tasks = << << "hostA:31001", "hostB:31002" >> >>
        /\ Apps["/web"].Frontends =
              << [Type |-> "http", Data |-> << "example.com" >>] >>
        /\ advancedStamps = Stamps

\* C9 amended: the happy path gives /web the slot [hostA:31001, hostB:31002]
\* and the single error frontend "frontend example.com/http not recognized"
\* (the names of an http frontend have no dot), and advances the four stamps.
C9_HappyPathNotRecognized ==
    happyPathDone =>
        /\ DOMAIN Apps = {"/web"}
        /\ Apps["/web"].Tasks = << << "hostA:31001", "hostB:31002" >> >>
        /\ Apps["/web"].Frontends =
              << [Type |-> "error",
                  Data |-> << "frontend example.com/http not recognized" >>] >>
        /\ advancedStamps = Stamps

C9_Witness ==
    /\ happyPathDone
    /\ LastUpdates.LastNginxReload = now

\* C10 as stated: whatever phase of an attempt fails, the file at
\* nginx_config is what it was when the attempt started.
C10_FailureLeavesConfig ==
    (attemptOver /\ outcome # "ok") => nginxConf = started.nginxConf

\* C10 amended: when the fetch, the render, the validation or the rename
\* fails, the file at nginx_config is what it was when the attempt started;
\* when the reload signal fails, the file is the validated candidate, which
\* the rename has installed before.
C10_FailureBeforeRenameLeavesConfig ==
    (attemptOver /\ outcome # "ok") =>
        IF outcome = "reloadFail"
        THEN nginxConf.name = validated /\ nginxConf # started.nginxConf
        ELSE nginxConf = started.nginxConf

\* the render failed in an attempt that followed an installation
C10_Witness ==
    /\ attemptOver
    /\ outcome = "renderFail"
    /\ tmpFile # 0
    /\ nginxConf.name # 0

(***************************************************************************)
(* C11: the rate limit of eventWorker.                                     *)
(***************************************************************************)
\* C11: the starts of two consecutive reload attempts are at least one
\* period of the ticker apart: no attempt starts in the period in which the
\* attempt before it started, so the ticker fired between the two starts.
C11_StartsOnePeriodApart ==
    gap # "same period"

(***************************************************************************)
(* C12: the status of the endpoints.                                       *)
(***************************************************************************)
\* the endpoints are those of the configuration, in its order
sameOrder ==
    /\ Len(health) = Len(Marathon)
    /\ \A i \in DOMAIN health : health[i].Endpoint = Marathon[i]

\* C12 as stated: at every moment, also before the first tick of the
\* monitor, an endpoint is marked healthy exactly when its most recent /ping
\* answered 200; the order of the endpoints never changes.
C12_HealthyIffLastPing200 ==
    /\ sameOrder
    /\ \A i \in DOMAIN health :
          health[i].Healthy <=> lastProbe[i] = "200 OK"

\* C12 amended: an endpoint that was never probed is marked healthy; from
\* its first probe on it is marked healthy exactly when its most recent
\* /ping answered 200 (an error or another status marks it unhealthy, a later
\* 200 healthy again); the order of the endpoints never changes.
C12_HealthyIffLastPing200OrNoPing ==
    /\ sameOrder
    /\ \A i \in DOMAIN health :
          /\ health[i].Healthy <=> lastProbe[i] \in {"none", "200 OK"}
          /\ health[i].Healthy <=> health[i].Message = "OK"

\* after a pass of the monitor the first endpoint is unhealthy for a 500 and
\* the second is healthy for a 200
C12_Witness ==
    /\ mpc = 0
    /\ lastProbe = << "500 Internal Server Error", "200 OK" >>
    /\ ~health[1].Healthy
    /\ health[2].Healthy

C14_AttemptNeverCrashes ==
    pc \in {"tick", "dequeue", "fetch", "sync", "render", "check",
            "rename", "signal"}

(***************************************************************************)
(* C15: the selection of the endpoint.                                     *)
(***************************************************************************)
\* the last /ping of the first endpoint answered 500, that of the second 200
firstDownSecondUp ==
    lastProbe = << "500 Internal Server Error", "200 OK" >>

\* fetchApps returns in this step
fetchReturns == pc = "fetch" /\ pc' # "fetch"

\* eventStream makes a request in this step
streamConnects == req' = req + 1

\* C15: once the monitor has probed the first of two endpoints with a 500
\* and the second with a 200, the first is marked unhealthy and the second
\* healthy, and every fetchApps and every request of eventStream made from
\* then on selects the second endpoint; fetchApps does not fail for want of
\* an endpoint.
C15_SecondEndpointSelected ==
    [][firstDownSecondUp =>
          /\ ~health[1].Healthy
          /\ health[2].Healthy
          /\ fetchReturns =>
                (fetchEndpoint' = Marathon[2] /\ outcome' # "endpointsDown")
          /\ streamConnects => streamEndpoint' = Marathon[2]
          /\ (spc = "tick" /\ spc' # "tick") => streamConnects]_vars

\* a fetch that decoded both answers and a request of eventStream have both
\* used the second endpoint, the first being marked unhealthy
C15_Witness ==
    /\ firstDownSecondUp
    /\ pc = "sync"
    /\ fetchEndpoint = Marathon[2]
    /\ spc = "do"
    /\ streamEndpoint = Marathon[2]

(***************************************************************************)
(* C16: the timer of a request of eventStream.                             *)
(***************************************************************************)
\* the function of the timer of request r runs in this step
runs(r) == timer[r] = 0 /\ timer'[r] = -1

\* C16: however often the timer of a request is reset, also after it ran
\* and after the request failed, a run that is not the first one of its
\* request, or that comes when the request is over, ends neither the
\* goroutine of eventStream nor the process and changes nothing of
\* eventStream, of any other request or of the queue.
C16_TimerRunsAreHarmless ==
    /\ [](spc # "crashed")
    /\ [][\A r \in DOMAIN timer :
             (runs(r) /\ (cancel[r] \/ r # req \/ ~open)) =>
                 /\ UNCHANGED << spc, req, streamEndpoint, reloadVars >>
                 /\ \A q \in DOMAIN timer \ {r} :
                       /\ cancel'[q] = cancel[q]
                       /\ timer'[q] = timer[q]]_vars

\* the timer of the first request ran twice, the second time after the
\* request had failed, and the second request is open and not cancelled
C16_Witness ==
    /\ req = 2
    /\ fires[1] = 2
    /\ spc = "read"
    /\ ~cancel[2]

(***************************************************************************)
(* C17: when eventStream cancels its request.                              *)
(***************************************************************************)
\* the timer closes the channel cancel of the open request in this step
cancels == open /\ ~cancel[req] /\ req' = req /\ cancel'[req]

\* C17 as stated: the open request is cancelled exactly when 15 s have
\* passed since the last complete line was read, or since the timer was made
\* when no line was read yet: it is not cancelled before, and it does not
\* stay open and uncancelled beyond.
C17_CancelledAfter15sWithoutLine ==
    /\ []((open /\ ~cancel[req]) => quiet <= watchdog)
    /\ [][cancels => quiet >= watchdog]_vars

\* C17 amended: the open request is cancelled exactly when 15 s have passed
\* since the timer was last armed: by the last complete line read, event or
\* not, by the arrival of the response, or by the making of the request.
C17_CancelledAfter15sSinceArmed ==
    /\ []((open /\ ~cancel[req]) => sinceArmed <= watchdog)
    /\ [][cancels => sinceArmed >= watchdog]_vars

\* the request was cancelled 15 s after its response arrived, which is 20 s
\* after it was made, no line having been read
C17_Witness ==
    /\ spc = "read"
    /\ cancel[req]
    /\ fires[req] = 1
    /\ sinceArmed = watchdog
    /\ quiet = watchdog + 1

(***************************************************************************)
(* C18: the lock of config.                                                *)
(***************************************************************************)
\* C18: no handler reads config.Apps while syncApps holds the lock, between
\* the emptying of the map and the end of the rebuild, and every step that
\* changes the status of an endpoint or a timestamp is taken with the
\* writer lock held.
C18_ReadersAndWritersLocked ==
    /\ [](~observed.locked)
    /\ [][(health' # health \/ LastUpdates' # LastUpdates) => locked]_vars

(***************************************************************************)
(* C19: config.Apps as a function of the input of syncApps.                *)
(***************************************************************************)
\* the positions of the tasks that contribute to the app id
contributors(id) == {k \in 1..Len(jsontasks) : qualifies(k, id)}

\* the app of the input with the id
appOf(id) == jsonapps[CHOOSE i \in 1..Len(jsonapps) : jsonapps[i].Id = id]

\* the first task that contributes to the app id
firstOf(id) ==
    jsontasks[CHOOSE k \in contributors(id) :
                 \A l \in contributors(id) : k <= l]

RECURSIVE slotFrom(_, _, _)
\* the p-th host:port of the contributors of id from position k on, in the
\* order of the task list
slotFrom(id, p, k) ==
    IF k > Len(jsontasks) THEN << >>
    ELSE (IF k \in contributors(id) /\ Len(jsontasks[k].Ports) >= p
          THEN << hostPort(jsontasks[k], jsontasks[k].Ports[p]) >>
          ELSE << >>) \o slotFrom(id, p, k + 1)

\* the entry of the app id as the input alone determines it
entryOf(id) ==
    [Env       |-> appOf(id).Env,
     Labels    |-> appOf(id).Labels,
     Tasks     |-> [p \in 1..Len(firstOf(id).Ports) |-> slotFrom(id, p, 1)],
     Frontends |-> parseFrontends(appOf(id), firstOf(id))]

\* C19: whatever config.Apps held before, after syncApps returns it holds
\* exactly the apps of the input that have a contributing task, each with
\* the entry the input alone determines: an app without contributing task
\* and an app of the map before are absent, and the same input gives the
\* same map.
C19_MapOfInputOnly ==
    synced =>
        /\ DOMAIN Apps =
              {jsonapps[i].Id : i \in {j \in 1..Len(jsonapps) :
                                          contributors(jsonapps[j].Id) # {}}}
        /\ \A id \in DOMAIN Apps : Apps[id] = entryOf(id)

\* the input has the apps /web and /api and tasks of /api only, one of them
\* without ports: the map, which held /web before, holds /api alone, with
\* the task that has ports
C19_Witness ==
    /\ synced
    /\ Len(jsonapps) = 2
    /\ Len(jsontasks) = 2
    /\ jsontasks[1].AppId = "/api"
    /\ jsontasks[1].Ports = << >>
    /\ DOMAIN Apps = {"/api"}
    /\ slotsOf("/api") = << << "hostB:31002" >> >>

(***************************************************************************)
(* C20: fetchApps and its two goroutines.                                  *)
(***************************************************************************)
\* C20: fetchApps returns only when both goroutines have delivered what
\* they had to send, whichever of them failed and whichever finished first;
\* while fetchApps is not running no goroutine of it runs or waits to send.
C20_ReturnsAfterBothDelivered ==
    /\ [][(fpc = "return" /\ fpc' = "idle") =>
             \A s \in Subtasks :
                 sub[s].at = "done" /\ received[s] = sub[s].err]_vars
    /\ [](fpc = "idle" =>
             \A s \in Subtasks : sub[s].at \in {"none", "done"})

\* both requests failed, fetchApps has returned an error and both goroutines
\* have delivered theirs
C20_Witness ==
    /\ fpc = "idle"
    /\ outcome = "fetchFail"
    /\ fetchErr # "nil"
    /\ \A s \in Subtasks : sub[s] = [at |-> "done", err |-> s \o " error"]

(***************************************************************************)
(* Properties of a reload and of the subscriber when no endpoint is        *)
(* healthy.                                                                *)
(***************************************************************************)
\* no endpoint of health.Endpoints is marked healthy
endpointsDown == \A i \in DOMAIN health : health[i].Healthy = FALSE

\* C21: when no endpoint is marked healthy, the step that takes reload out
\* of fetchApps ends the attempt with the all-endpoints-down error, sends no
\* request to any endpoint and leaves config.Apps, the four timestamps and
\* the files on disk as they were, so that after the attempt they are what
\* they were when it started; and a step of the subscriber at its ticker
\* opens no request, arms no timer and leaves it at its ticker, from where
\* it selects again on the next tick.
C21_EndpointsDown ==
    /\ [][endpointsDown /\ pc = "fetch" /\ pc' # pc =>
            /\ pc' = "tick"
            /\ outcome' = "endpointsDown"
            /\ fetchEndpoint' = ""
            /\ fpc' = "idle"
            /\ Apps' = Apps
            /\ LastUpdates' = LastUpdates
            /\ nginxConf' = nginxConf
            /\ tmpFiles' = tmpFiles]_vars
    /\ [](outcome = "endpointsDown" =>
            /\ fetchEndpoint = ""
            /\ LastUpdates = started.LastUpdates
            /\ nginxConf = started.nginxConf)
    /\ [][endpointsDown /\ spc = "tick" =>
            /\ spc' = "tick"
            /\ req' = req
            /\ timer' = timer
            /\ streamEndpoint' \in {streamEndpoint, ""}]_vars
    /\ [](spc = "tick" /\ req < MaxRequests => ENABLED streamTick)

\* after a reload had filled config.Apps and set the four timestamps, and
\* after the subscriber had made a request, every endpoint failed its ping;
\* a reload attempt then ended with the all-endpoints-down error and the
\* last tick of the subscriber found no endpoint
C21_Witness ==
    /\ endpointsDown
    /\ attemptOver
    /\ outcome = "endpointsDown"
    /\ Apps # emptyApps
    /\ \A f \in Stamps : LastUpdates[f] > 0
    /\ nginxConf # installedConf
    /\ req > 0
    /\ spc = "tick"
    /\ streamEndpoint = ""

(***************************************************************************)
(* Properties of the offers made while a reload attempt is in progress.    *)
(***************************************************************************)
\* reload() was called and has not returned
inProgress == outcome = "running"

C23_FailedCandidateRemoved ==
    /\ attemptOver /\ outcome = "invalidConf" =>
          tmpFile \notin DOMAIN tmpFiles
    /\ pc \in {"tick", "dequeue"} => DOMAIN tmpFiles = {}

(***************************************************************************)
(* Properties of the error fetchApps returns.                              *)
(***************************************************************************)
\* fetchApps has returned and its two goroutines have ended
fetchReturned == fpc = "idle" /\ \A s \in Subtasks : sub[s].at = "done"

\* C24: whatever the order in which the two goroutines of fetchApps finish,
\* the error fetchApps returns is the error of the /v2/apps goroutine when
\* that is not nil, else the error of the /v2/tasks goroutine when that is
\* not nil, else nil: it is a function of the two outcomes alone.
C24_ErrorOfOutcomesOnly ==
    fetchReturned =>
        /\ Len(finished) = 2
        /\ fetchErr =
              CASE sub["apps"].err # "nil" -> sub["apps"].err
                [] sub["apps"].err = "nil" /\ sub["tasks"].err # "nil" ->
                      sub["tasks"].err
                [] OTHER -> "nil"

\* the /v2/tasks goroutine failed first, the /v2/apps goroutine failed after
\* it, and fetchApps returned the error of /v2/apps
C24_Witness ==
    /\ fetchReturned
    /\ finished = << "tasks", "apps" >>
    /\ sub["tasks"].err = "tasks error"
    /\ sub["apps"].err = "apps error"
    /\ fetchErr = "apps error"
====
